---- MODULE Spec2Model ----
(***************************************************************************)
(* Terrain regeneration of bevy_forest_scene (src/src/terrain.rs), and the  *)
(* terrain of the app in src/src/main.rs, which spawns its mesh once.      *)
(*                                                                         *)
(* Units.  Heights and translations are in hundredths of a world unit      *)
(* (0.01 is 1).  Unit draws, density and steepness are in quarters (1.0    *)
(* is 4).  The scale draw is in thousandths, the yaw draw in eighths of a  *)
(* turn.  Rotation is in quarter turns.                                    *)
(*                                                                         *)
(* Systems.  A run of a system is one step.  What a system does through    *)
(* Commands is buffered and reaches the world in a later step,             *)
(* ApplyDeferred, which comes before the system's next run; the asset      *)
(* server and the configuration reload may act in between.  An invocation  *)
(* of on_terrain_resource_loaded that takes an early return changes        *)
(* nothing and is a stuttering step.                                       *)
(*                                                                         *)
(* Panics.  generate_tangents().unwrap() is the panic site of a pass.  The *)
(* panic ends the app: no system runs after it.  The commands the pass     *)
(* had issued by then are in its buffer, and whether the scheduler still   *)
(* applies them while it unwinds is left open: ApplyDeferred may or may    *)
(* not follow.  The nodes on_terrain_resource_loaded looks up by name are  *)
(* those of the bundled fir_tree_stylized.glb, which the asset server      *)
(* inserts together with the glTF asset itself: the lookups succeed.       *)
(*                                                                         *)
(* main.rs.  The app of main.rs does not include the terrain module; its   *)
(* state is a second group of variables with a specification of its own,   *)
(* SpecMain.  Each specification leaves the other group as Init made it.   *)
(* There the Update systems run once Startup is done and its commands are  *)
(* applied; a run of spawn_terrain is counted, whatever it does, and its   *)
(* spawn command is applied with the run.                                  *)
(***************************************************************************)
EXTENDS Integers, Sequences, FiniteSets, TLC

VARIABLES
    terrain_config,     \* the TerrainConfig resource
    changed,            \* change-detection flag of the TerrainConfig resource
    gltf_loaded,        \* Assets<Gltf> holds the asset behind trees_gltf
    loaded,             \* Local<bool> of on_terrain_resource_loaded
    trees,              \* TerrainResources.trees
    set_changed_count,  \* number of terrain_config.set_changed() calls made
    world,              \* live entities tagged DespawnOnTerrainReload
    commands,           \* the pass's Commands not yet applied to the world
    last_pass,          \* what the latest run of on_terrain_config_loaded did
    passes,             \* number of runs of on_terrain_config_loaded
    crashed,            \* a system has panicked
    reference,          \* per reference configuration, the instance list of
                        \* the first completed scatter run with it
    \* main.rs
    started,            \* the Startup schedule has run
    terrain,            \* the Terrain resource: <<>> or <<the resource>>
    main_trees,         \* the tree instances setup_terrain spawned
    material_state,     \* load state of terrain.material
    image_state,        \* load state of the material's base colour image
    spawned,            \* Local<bool> of spawn_terrain
    terrain_meshes,     \* the entities spawn_terrain spawned, in order
    image_sampler,      \* address mode of the base colour image's sampler
    uv_transform,       \* scale of the material's uv_transform
    wireframe_global,   \* WireframeConfig.global
    invocations         \* number of runs of spawn_terrain

main_vars == <<started, terrain, main_trees, material_state, image_state,
               spawned, terrain_meshes, image_sampler, uv_transform,
               wireframe_global, invocations>>

terrain_vars == <<terrain_config, changed, gltf_loaded, loaded, trees,
                  set_changed_count, world, commands, last_pass, passes,
                  crashed, reference>>

vars == <<terrain_vars, main_vars>>

----------------------------------------------------------------------------
(* Bounds *)

MaxHalfSize == 1
MaxPasses == 3
MainHalfSize == 1
MaxInvocations == 6

----------------------------------------------------------------------------
(* Numbers of the program, in the units above *)

One == 4
MinHeight == 1
RngModulus == 64

Abs(n) == IF n < 0 THEN -n ELSE n
Min(a, b) == IF a < b THEN a ELSE b
Range(s) == {s[i] : i \in 1..Len(s)}

----------------------------------------------------------------------------
(* TerrainConfig *)

DefaultConfig ==
    [half_size |-> MaxHalfSize, seed |-> 42, frequency |-> 1, octaves |-> 6,
     density |-> 2, max_steepness |-> 2, use_depth_map |-> FALSE, rotation |-> 0]

\* another seed, with the mesh turned and the depth map in use
OtherSeedConfig ==
    [DefaultConfig EXCEPT !.seed = 43, !.use_depth_map = TRUE, !.rotation = 1]

\* the configurations a reload can bring: the default with its density and
\* slope gate varied, and the default with other fields changed
Configs ==
    {[DefaultConfig EXCEPT !.density = d] : d \in {0, 2}}
    \cup {[DefaultConfig EXCEPT !.density = One, !.max_steepness = m] :
            m \in {2, One}}
    \cup {[DefaultConfig EXCEPT !.half_size = h] : h \in 0..MaxHalfSize}
    \cup {[DefaultConfig EXCEPT !.density = -1],
          [DefaultConfig EXCEPT !.density = 5],
          [DefaultConfig EXCEPT !.frequency = -1],
          [DefaultConfig EXCEPT !.octaves = 0],
          OtherSeedConfig}

\* the configurations whose first scatter result is kept for comparison
ReproConfigs == {DefaultConfig, OtherSeedConfig}

----------------------------------------------------------------------------
(* StdRng: a seeded deterministic stream, one step per gen_range call *)

seed_from_u64(seed) == seed % RngModulus

NextRng(s) == (13 * s + 7) % RngModulus

\* rng.gen_range(lo..hi) read off the state s the call leaves behind
gen_range(s, lo, hi) == lo + ((s * (hi - lo)) \div RngModulus)

----------------------------------------------------------------------------
(* Noise field and mesh generation *)

Fbm(seed, frequency, octaves) ==
    [seed |-> seed, frequency |-> frequency, octaves |-> octaves]

\* fbm.get: a fixed deterministic function of the noise parameters and the
\* sample point; the value is in ten-thousandths
fbm_get(fbm, x, z) ==
    ((fbm.seed * 5 + fbm.octaves * 2 + fbm.frequency * (2 * x + 3 * z)
        + 7 * x * x + 2 * z * z + 28) % 9) - 2

\* ten-thousandths times 100.0 are hundredths
get_terrain_height(fbm, x, z) == fbm_get(fbm, x, z)

\* Plane { size: 2 * half_size, subdivisions: 2 * half_size }: the grid
\* points row by row, as <<x, z>>
PlaneVertices(half_size) ==
    LET side == 2 * half_size + 1
    IN  [i \in 1..(side * side) |->
            <<((i - 1) % side) - half_size, ((i - 1) \div side) - half_size>>]

\* compute_smooth_normals followed by |normal x up|: the steepness at a
\* vertex grows with the height step to the next vertex, capped at 1.0
compute_smooth_normals(heights) ==
    [i \in 1..Len(heights) |->
        Min(One, Abs(heights[i] - heights[(i % Len(heights)) + 1]))]

\* Mesh::rotated_by(yaw about the up axis) by quarter turns
rotated_by(p, rotation) ==
    IF rotation % 4 = 0 THEN p
    ELSE IF rotation % 4 = 1 THEN <<p[3], p[2], -p[1]>>
    ELSE IF rotation % 4 = 2 THEN <<-p[1], p[2], -p[3]>>
    ELSE <<-p[3], p[2], p[1]>>

\* the mesh of a pass: positions <<x, height, z>> and per-vertex steepness
generate_terrain_mesh(fbm, half_size, rotation) ==
    LET grid == PlaneVertices(half_size)
        heights == [i \in 1..Len(grid) |->
                        get_terrain_height(fbm, grid[i][1], grid[i][2])]
    IN  [positions |-> [i \in 1..Len(grid) |->
                          rotated_by(<<100 * grid[i][1], heights[i],
                                       100 * grid[i][2]>>, rotation)],
         normals |-> compute_smooth_normals(heights)]

----------------------------------------------------------------------------
(* The scatter loop of on_terrain_config_loaded *)

\* the height gate with the threshold itself rejected
HeightGateInclusive(terrain_height) == terrain_height <= MinHeight

\* terrain_height < 0.01
HeightGateRejects(terrain_height) == terrain_height < MinHeight

\* the density gate rejecting a draw equal to 1 - density
DensityGateInclusive(coin, density) == coin <= One - density

\* the density gate comparing against the distance of density from 1.0
DensityGateUnsigned(coin, density) == coin < Abs(One - density)

\* rng.gen_range(0.0..1.0) < 1.0 - terrain_config.density
DensityGateRejects(coin, density) == coin < One - density

\* the slope gate with the comparison turned around
SlopeGateInverted(steepness, max_steepness) == steepness < max_steepness

\* steepness > terrain_config.max_steepness
SlopeGateRejects(steepness, max_steepness) == steepness > max_steepness

\* the variant index drawn before the jitter
InstanceVariantFirst(i, pos, s1, ntrees) ==
    LET s2 == NextRng(s1)
        s3 == NextRng(s2)
        s4 == NextRng(s3)
        s5 == NextRng(s4)
        s6 == NextRng(s5)
        s7 == NextRng(s6)
        random_offset == <<gen_range(s3, -25, 25), gen_range(s4, -5, 0),
                           gen_range(s5, -25, 25)>>
    IN  [vertex |-> i,
         translation |-> <<pos[1] + random_offset[1], pos[2] + random_offset[2],
                           pos[3] + random_offset[3]>>,
         variant |-> gen_range(s2, 0, ntrees),
         scale |-> gen_range(s6, 20, 25) * (10000 - pos[2]),
         yaw |-> gen_range(s7, 0, 8),
         rng |-> s7]

\* the draws of an accepted vertex, s1 being the state after the density draw
Instance(i, pos, s1, ntrees) ==
    LET s2 == NextRng(s1)
        s3 == NextRng(s2)
        s4 == NextRng(s3)
        s5 == NextRng(s4)
        s6 == NextRng(s5)
        s7 == NextRng(s6)
        random_offset == <<gen_range(s2, -25, 25), gen_range(s3, -5, 0),
                           gen_range(s4, -25, 25)>>
    IN  [vertex |-> i,
         translation |-> <<pos[1] + random_offset[1], pos[2] + random_offset[2],
                           pos[3] + random_offset[3]>>,
         variant |-> gen_range(s5, 0, ntrees),
         \* gen_range(0.02..0.025) * (1.0 - terrain_height / 100.0)
         scale |-> gen_range(s6, 20, 25) * (10000 - pos[2]),
         yaw |-> gen_range(s7, 0, 8),
         rng |-> s7]

\* One entry per vertex from vertex i on, in iteration order, the stream
\* being in state s: the gate that decided ("height", "density", "slope" or
\* "accept"), the density draw (-1 when none was taken), the number of
\* draws consumed, the instance spawned, if any, and the state of the
\* stream after the vertex.
RECURSIVE Scatter(_, _, _, _, _)
Scatter(i, s, mesh, config, ntrees) ==
    IF i > Len(mesh.positions) THEN <<>>
    ELSE
        LET pos == mesh.positions[i]
            terrain_height == pos[2]
            steepness == mesh.normals[i]
            s1 == NextRng(s)
            coin == gen_range(s1, 0, One)
            entry == [vertex |-> i, height |-> terrain_height,
                      steepness |-> steepness]
        IN  IF HeightGateRejects(terrain_height)
            THEN <<entry @@ [gate |-> "height", coin |-> -1, draws |-> 0,
                             inst |-> <<>>, rng |-> s]>>
                 \o Scatter(i + 1, s, mesh, config, ntrees)
            ELSE IF DensityGateRejects(coin, config.density)
            THEN <<entry @@ [gate |-> "density", coin |-> coin, draws |-> 1,
                             inst |-> <<>>, rng |-> s1]>>
                 \o Scatter(i + 1, s1, mesh, config, ntrees)
            ELSE IF SlopeGateRejects(steepness, config.max_steepness)
            THEN <<entry @@ [gate |-> "slope", coin |-> coin, draws |-> 1,
                             inst |-> <<>>, rng |-> s1]>>
                 \o Scatter(i + 1, s1, mesh, config, ntrees)
            ELSE LET inst == Instance(i, pos, s1, ntrees)
                 IN  <<entry @@ [gate |-> "accept", coin |-> coin, draws |-> 7,
                                 inst |-> <<inst>>, rng |-> inst.rng]>>
                     \o Scatter(i + 1, inst.rng, mesh, config, ntrees)

\* the instances of a log, in spawn order
RECURSIVE Instances(_)
Instances(log) ==
    IF log = <<>> THEN <<>>
    ELSE log[1].inst \o Instances(Tail(log))

----------------------------------------------------------------------------
(* State after the startup systems of terrain.rs, before those of main.rs *)

NoCommands == [despawn |-> {}, spawn |-> <<>>]

NoPass ==
    [gen |-> 0, outcome |-> "none", config |-> DefaultConfig, ntrees |-> 0,
     previous |-> {}, scattered |-> FALSE, log |-> <<>>, rng |-> 0]

\* setup_terrain_resources: the glTF load is requested, trees is vec![];
\* main.rs: WireframeConfig { global: false }, no Terrain resource yet
Init ==
    /\ terrain_config = DefaultConfig
    /\ changed = TRUE
    /\ gltf_loaded = FALSE
    /\ loaded = FALSE
    /\ trees = <<>>
    /\ set_changed_count = 0
    /\ world = {}
    /\ commands = NoCommands
    /\ last_pass = NoPass
    /\ passes = 0
    /\ crashed = FALSE
    /\ reference = [c \in ReproConfigs |-> <<>>]
    /\ started = FALSE
    /\ terrain = <<>>
    /\ main_trees = <<>>
    /\ material_state = "none"
    /\ image_state = "none"
    /\ spawned = FALSE
    /\ terrain_meshes = <<>>
    /\ image_sampler = "default"
    /\ uv_transform = 1
    /\ wireframe_global = FALSE
    /\ invocations = 0

----------------------------------------------------------------------------
(* The environment: asset server and configuration hot reload *)

\* the asset server finishes loading fir_tree_stylized.glb
GltfAssetLoaded ==
    /\ ~crashed
    /\ ~gltf_loaded
    /\ gltf_loaded' = TRUE
    /\ UNCHANGED <<terrain_config, changed, loaded, trees, set_changed_count,
                   world, commands, last_pass, passes, crashed, reference>>
    /\ UNCHANGED main_vars

\* terrain_config.scn.ron is (re)loaded and written into the resource
ConfigReloaded ==
    /\ ~crashed
    /\ \E c \in Configs : terrain_config' = c
    /\ changed' = TRUE
    /\ UNCHANGED <<gltf_loaded, loaded, trees, set_changed_count,
                   world, commands, last_pass, passes, crashed, reference>>
    /\ UNCHANGED main_vars

----------------------------------------------------------------------------
(* on_terrain_resource_loaded *)

\* the early return on the Local flag left out
VariantsToBuildIgnoringLocal(is_loaded, asset_present) == asset_present

\* the early return on the missing glTF asset left out
VariantsToBuildWithoutAsset(is_loaded, asset_present) == ~is_loaded

\* neither early return is taken
VariantsToBuild(is_loaded, asset_present) == ~is_loaded /\ asset_present

on_terrain_resource_loaded ==
    /\ ~crashed
    /\ IF VariantsToBuild(loaded, gltf_loaded)
       THEN /\ trees' = Append(Append(Append(trees, 0), 1), 2)
            /\ changed' = TRUE
            /\ set_changed_count' = set_changed_count + 1
            /\ loaded' = TRUE
       ELSE UNCHANGED <<trees, changed, set_changed_count, loaded>>
    /\ UNCHANGED <<terrain_config, gltf_loaded, world, commands, last_pass,
                   passes, crashed, reference>>
    /\ UNCHANGED main_vars

----------------------------------------------------------------------------
(* on_terrain_config_loaded *)

\* the run condition of the system: the TerrainConfig resource changed
RunCondition == changed

\* a teardown that misses the tree instances
DespawnMeshOnly(w) == {e.id : e \in {x \in w : x.tag /\ x.kind = "mesh"}}

\* no teardown at all
DespawnNothing(w) == {}

\* for e in &despawn_on_reload { commands.entity(e).despawn_recursive() }
DespawnCommands(w) == {e.id : e \in {x \in w : x.tag}}

\* a stream kept across passes instead of being seeded anew
PassRngCarried ==
    IF last_pass.outcome = "none" THEN seed_from_u64(terrain_config.seed)
    ELSE last_pass.rng

\* StdRng::seed_from_u64(terrain_config.seed as u64)
PassRng == seed_from_u64(terrain_config.seed)

\* the state of the stream when the loop is done
FinalRng(rng, log) == IF log = <<>> THEN rng ELSE log[Len(log)].rng

\* commands.spawn((SceneBundle {..}, CustomizeTreeMaterial, DespawnOnTerrainReload))
TreeEntity(gen, k, config, inst) ==
    [id |-> <<gen, k>>, gen |-> gen, kind |-> "tree", tag |-> TRUE,
     config |-> config, body |-> inst]

\* commands.spawn(MaterialMeshBundle {..}).insert(DespawnOnTerrainReload)
MeshEntity(gen, config, mesh) ==
    [id |-> <<gen, 0>>, gen |-> gen, kind |-> "mesh", tag |-> TRUE,
     config |-> config,
     body |-> [mesh |-> mesh,
               material |-> [uv_scale |-> 25,
                             depth_map |-> config.use_depth_map,
                             max_steepness |-> config.max_steepness]]]

\* the mesh spawned only from inside the scatter branch
SpawnCommandsMeshInBranch(gen, config, mesh, log) ==
    LET insts == Instances(log)
    IN  IF insts = <<>> THEN <<>>
        ELSE [k \in 1..Len(insts) |-> TreeEntity(gen, k, config, insts[k])]
             \o <<MeshEntity(gen, config, mesh)>>

\* the spawn commands of a pass, in the order they are issued: the trees in
\* vertex order, then the terrain mesh
SpawnCommands(gen, config, mesh, log) ==
    LET insts == Instances(log)
    IN  [k \in 1..Len(insts) |-> TreeEntity(gen, k, config, insts[k])]
        \o <<MeshEntity(gen, config, mesh)>>

\* One run of the system.  generate_tangents().unwrap() panics when tangent
\* generation fails; the despawn commands are already issued by then and
\* nothing has been spawned.
on_terrain_config_loaded ==
    /\ ~crashed
    /\ RunCondition
    /\ commands = NoCommands
    /\ passes < MaxPasses
    /\ \E tangents_ok \in BOOLEAN :
        LET gen == passes + 1
            config == terrain_config
            previous == DespawnCommands(world)
            fbm == Fbm(config.seed, config.frequency, config.octaves)
            rng == PassRng
            scattered == trees # <<>>
        IN  \E mesh \in {generate_terrain_mesh(fbm, config.half_size,
                                               config.rotation)} :
            \E log \in {IF scattered
                         THEN Scatter(1, rng, mesh, config, Len(trees))
                         ELSE <<>>} :
            IF tangents_ok
            THEN /\ commands' = [despawn |-> previous,
                                 spawn |-> SpawnCommands(gen, config, mesh, log)]
                 /\ last_pass' = [gen |-> gen, outcome |-> "ok",
                                  config |-> config, ntrees |-> Len(trees),
                                  previous |-> previous,
                                  scattered |-> scattered, log |-> log,
                                  rng |-> FinalRng(rng, log)]
                 /\ crashed' = FALSE
                 /\ reference' =
                        IF scattered /\ config \in ReproConfigs
                                     /\ reference[config] = <<>>
                        THEN [reference EXCEPT ![config] =
                                <<[gen |-> gen, ntrees |-> Len(trees),
                                   instances |-> Instances(log)]>>]
                        ELSE reference
            ELSE /\ commands' = [despawn |-> previous, spawn |-> <<>>]
                 /\ last_pass' = [gen |-> gen, outcome |-> "panic",
                                  config |-> config, ntrees |-> Len(trees),
                                  previous |-> previous,
                                  scattered |-> FALSE, log |-> <<>>,
                                  rng |-> rng]
                 /\ crashed' = TRUE
                 /\ UNCHANGED reference
    /\ passes' = passes + 1
    /\ changed' = FALSE
    /\ UNCHANGED <<terrain_config, gltf_loaded, loaded, trees,
                   set_changed_count, world>>
    /\ UNCHANGED main_vars

\* the buffered commands of the pass are applied to the world, in order
ApplyDeferred ==
    /\ commands # NoCommands
    /\ world' = {e \in world : e.id \notin commands.despawn}
                    \cup Range(commands.spawn)
    /\ commands' = NoCommands
    /\ UNCHANGED <<terrain_config, changed, gltf_loaded, loaded, trees,
                   set_changed_count, last_pass, passes, crashed, reference>>
    /\ UNCHANGED main_vars

----------------------------------------------------------------------------

Next ==
    \/ GltfAssetLoaded
    \/ ConfigReloaded
    \/ on_terrain_resource_loaded
    \/ on_terrain_config_loaded
    \/ ApplyDeferred

Spec == Init /\ [][Next]_vars

----------------------------------------------------------------------------
(* main.rs: the terrain of the app *)

\* Terrain::get_height: the noise sampled at [x, 0, z], times 100.0
Terrain_get_height(t, x, z) == fbm_get(t.fbm, x, z)

\* Terrain::generate_mesh: the plane with every vertex lifted to its height
Terrain_generate_mesh(t) ==
    LET grid == PlaneVertices(t.half_size)
    IN  [i \in 1..Len(grid) |->
            <<100 * grid[i][1],
              Terrain_get_height(t, grid[i][1], grid[i][2]),
              100 * grid[i][2]>>]

\* the grid points setup_terrain visits, x outermost, both from -half_size
\* up to half_size - 1
SetupGrid(half_size) ==
    [k \in 1..(4 * half_size * half_size) |->
        <<((k - 1) \div (2 * half_size)) - half_size,
          ((k - 1) % (2 * half_size)) - half_size>>]

\* The tree loop of setup_terrain from grid point k on, the stream being in
\* state s.  The chance draw is in hundredths, the offsets in hundredths,
\* the scale in thousandths, the yaw in eighths of a turn.
RECURSIVE SetupTrees(_, _, _)
SetupTrees(k, s, t) ==
    LET grid == SetupGrid(t.half_size)
    IN  IF k > Len(grid) THEN <<>>
        ELSE
            LET x == grid[k][1]
                z == grid[k][2]
                terrain_height == Terrain_get_height(t, x, z)
                s1 == NextRng(s)
                s2 == NextRng(s1)
                s3 == NextRng(s2)
                s4 == NextRng(s3)
                s5 == NextRng(s4)
            IN  IF terrain_height < 0 THEN SetupTrees(k + 1, s, t)
                ELSE IF gen_range(s1, 0, 100) < 95
                THEN SetupTrees(k + 1, s1, t)
                ELSE <<[translation |->
                            <<100 * x + gen_range(s2, -50, 50), terrain_height,
                              100 * z + gen_range(s3, -25, 25)>>,
                        scale |-> gen_range(s4, 120, 150),
                        yaw |-> gen_range(s5, 0, 8)]>>
                     \o SetupTrees(k + 1, s5, t)

\* Startup: the Terrain resource is built and inserted, its material and
\* the tree scene are requested from the asset server, the trees are spawned
setup_terrain ==
    /\ ~started
    /\ LET t == [material |-> "forest_ground_04_4k.gltf#Material0",
                 half_size |-> MainHalfSize,
                 fbm |-> Fbm(42, 1, 4)]
       IN  /\ terrain' = <<t>>
           /\ main_trees' = SetupTrees(1, seed_from_u64(42), t)
    /\ material_state' = "loading"
    /\ image_state' = "loading"
    /\ started' = TRUE
    /\ UNCHANGED <<spawned, terrain_meshes, image_sampler, uv_transform,
                   wireframe_global, invocations>>
    /\ UNCHANGED terrain_vars

\* the asset server is done with the material: it is in
\* Assets<StandardMaterial>, or the load has failed
MaterialSettled ==
    /\ material_state = "loading"
    /\ \E r \in {"loaded", "failed"} : material_state' = r
    /\ UNCHANGED <<started, terrain, main_trees, image_state, spawned,
                   terrain_meshes, image_sampler, uv_transform,
                   wireframe_global, invocations>>
    /\ UNCHANGED terrain_vars

\* the asset server is done with the base colour image: it is in
\* Assets<Image>, or the load has failed
ImageSettled ==
    /\ image_state = "loading"
    /\ \E r \in {"loaded", "failed"} : image_state' = r
    /\ UNCHANGED <<started, terrain, main_trees, material_state, spawned,
                   terrain_meshes, image_sampler, uv_transform,
                   wireframe_global, invocations>>
    /\ UNCHANGED terrain_vars

\* the early return on the Local flag left out
SpawnTerrainReadyIgnoringLocal(is_spawned, terrain_res, material, image) ==
    /\ terrain_res # <<>>
    /\ material = "loaded"
    /\ image = "loaded"

\* none of the four early returns of spawn_terrain is taken
SpawnTerrainReady(is_spawned, terrain_res, material, image) ==
    /\ ~is_spawned
    /\ terrain_res # <<>>
    /\ material = "loaded"
    /\ image = "loaded"

\* one run of spawn_terrain; the entity records the run that spawned it
spawn_terrain ==
    /\ started
    /\ invocations < MaxInvocations
    /\ invocations' = invocations + 1
    /\ IF SpawnTerrainReady(spawned, terrain, material_state, image_state)
       THEN /\ image_sampler' = "repeat"
            /\ uv_transform' = 20
            /\ terrain_meshes' =
                    Append(terrain_meshes,
                           [run |-> invocations + 1,
                            mesh |-> Terrain_generate_mesh(terrain[1]),
                            material |-> terrain[1].material])
            /\ spawned' = TRUE
       ELSE UNCHANGED <<image_sampler, uv_transform, terrain_meshes, spawned>>
    /\ UNCHANGED <<started, terrain, main_trees, material_state, image_state,
                   wireframe_global>>
    /\ UNCHANGED terrain_vars

\* a run of toggle_wireframe in a frame in which T has just been pressed
toggle_wireframe ==
    /\ started
    /\ wireframe_global' = ~wireframe_global
    /\ UNCHANGED <<started, terrain, main_trees, material_state, image_state,
                   spawned, terrain_meshes, image_sampler, uv_transform,
                   invocations>>
    /\ UNCHANGED terrain_vars

NextMain ==
    \/ setup_terrain
    \/ MaterialSettled
    \/ ImageSettled
    \/ spawn_terrain
    \/ toggle_wireframe

SpecMain == Init /\ [][NextMain]_vars

----------------------------------------------------------------------------
(* Properties *)

Trees(w) == {e \in w : e.kind = "tree"}
Meshes(w) == {e \in w : e.kind = "mesh"}

\* what the latest pass put into the scene: still buffered, or live
Output ==
    {e \in Range(commands.spawn) \cup world : e.gen = last_pass.gen}

Installed == last_pass.outcome = "ok" /\ commands = NoCommands

\* C1: the live entities tagged DespawnOnTerrainReload all come from one
\* pass; a completed pass despawns every one of them; and once its commands
\* are applied the live ones are exactly that pass's mesh entity and tree
\* instances.
C1_SingleGeneration ==
    /\ \A e1, e2 \in world : (e1.tag /\ e2.tag) => e1.gen = e2.gen
    /\ (last_pass.outcome = "ok" /\ commands # NoCommands) =>
            commands.despawn = {e.id : e \in world}
    /\ Installed =>
        /\ \A e \in world : e.tag /\ e.gen = last_pass.gen
        /\ Cardinality(Meshes(world)) = 1
        /\ {e.body : e \in Trees(world)} = Range(Instances(last_pass.log))
        /\ Cardinality(Trees(world)) = Len(Instances(last_pass.log))

\* a second or later generation with trees is installed over one with trees
C1_Witness ==
    /\ Installed
    /\ last_pass.gen >= 2
    /\ \E id \in last_pass.previous : id[2] > 0
    /\ Trees(world) # {}

\* C2: set_changed() has been called once if the variants are built and not
\* at all otherwise, never while the glTF asset is absent; the call happens
\* in the step that finds the asset present for the first time, marks the
\* configuration changed and leaves every configuration field as it was.
C2_ForcedTriggerOnce ==
    /\ [](set_changed_count = IF loaded THEN 1 ELSE 0)
    /\ [](~gltf_loaded => set_changed_count = 0)
    /\ [][set_changed_count' # set_changed_count =>
            /\ gltf_loaded /\ ~loaded /\ loaded'
            /\ set_changed_count' = set_changed_count + 1
            /\ changed'
            /\ terrain_config' = terrain_config]_vars
    /\ [][loaded => (loaded' /\ set_changed_count' = set_changed_count)]_vars

\* the trigger has fired and the pass it forced has scattered trees
C2_Witness ==
    /\ loaded
    /\ set_changed_count = 1
    /\ last_pass.scattered
    /\ last_pass.config = DefaultConfig

\* C3: a completed pass that found the variant list empty has spawned
\* exactly one mesh entity, tagged DespawnOnTerrainReload, and no tree.
C3_MeshWithoutTrees ==
    (last_pass.outcome = "ok" /\ last_pass.ntrees = 0) =>
        /\ Cardinality(Meshes(Output)) = 1
        /\ \A e \in Meshes(Output) : e.tag
        /\ Trees(Output) = {}
        /\ ~last_pass.scattered

\* such a pass has run and its mesh is live
C3_Witness ==
    /\ Installed
    /\ last_pass.ntrees = 0
    /\ Meshes(world) # {}

\* a tree of generation g sits on vertex v of the mesh m: within the jitter
\* of the vertex, and on a slope the mesh's material settings allow
DerivedFrom(t, m) ==
    LET v == t.body.vertex
        p == m.body.mesh.positions[v]
        q == t.body.translation
    IN  /\ v \in 1..Len(m.body.mesh.positions)
        /\ Abs(q[1] - p[1]) <= 25
        /\ Abs(q[3] - p[3]) <= 25
        /\ q[2] - p[2] \in -5..-1
        /\ m.body.mesh.normals[v] <= m.body.material.max_steepness

\* C4: a pass starts only when no commands of an earlier pass are pending;
\* the live terrain is never a mix (one generation, one configuration, every
\* tree derived from the live mesh); and when no change is pending and the
\* commands are applied, the live terrain is the one generation computed
\* from the current configuration and variant list.
C4_LatestConfigurationInstalled ==
    /\ \A e \in Range(commands.spawn) :
            e.gen = passes /\ e.config = last_pass.config
    /\ \A e1, e2 \in world : e1.gen = e2.gen /\ e1.config = e2.config
    /\ \A t \in Trees(world) : \A m \in Meshes(world) : DerivedFrom(t, m)
    /\ Trees(world) # {} => Meshes(world) # {}
    /\ (Installed /\ ~changed) =>
        /\ Cardinality(Meshes(world)) = 1
        /\ \A e \in world : e.gen = last_pass.gen /\ e.config = terrain_config
        /\ \A m \in Meshes(world) :
                /\ Len(m.body.mesh.positions)
                      = (2 * terrain_config.half_size + 1)
                        * (2 * terrain_config.half_size + 1)
                /\ m.body.material.max_steepness = terrain_config.max_steepness
        /\ last_pass.ntrees = Len(trees)

\* a change of the configuration has arrived while the commands of a pass
\* are pending: the live terrain is of one configuration, the pending one of
\* another, and the current configuration is a third
C4_Witness ==
    /\ changed
    /\ last_pass.outcome = "ok"
    /\ commands # NoCommands
    /\ terrain_config # last_pass.config
    /\ \E t \in Trees(world) :
            t.config # last_pass.config /\ t.config # terrain_config
    /\ \E t \in Trees(Range(commands.spawn)) : t.config = last_pass.config

\* the log entry of the vertex a tree of the latest pass was spawned for
SourceEntry(t) == last_pass.log[t.body.vertex]

\* the vertex passes the three gates of the configuration the pass used
PassesGates(entry, config) ==
    /\ entry.height >= MinHeight
    /\ entry.coin >= One - config.density
    /\ entry.steepness <= config.max_steepness

\* the entry describes vertex v of the mesh the pass spawned
OnMesh(entry, v) ==
    \A m \in Meshes(Output) :
        /\ m.body.mesh.positions[v][2] = entry.height
        /\ m.body.mesh.normals[v] = entry.steepness

\* C5 as claimed: the source vertex of every tree of the latest pass passes
\* the three gates, and no tree's translation height is below 0.01.
C5_NoInstanceBelowThreshold ==
    \A t \in Trees(Output) :
        /\ OnMesh(SourceEntry(t), t.body.vertex)
        /\ PassesGates(SourceEntry(t), last_pass.config)
        /\ t.body.translation[2] >= MinHeight

\* C5 as amended: the source vertex of every tree of the latest pass passes
\* the three gates; the tree's translation height is the vertex height
\* lowered by the vertical jitter, so it is never below 0.01 - 0.05.
C5_SourceVertexPassesGates ==
    \A t \in Trees(Output) :
        /\ OnMesh(SourceEntry(t), t.body.vertex)
        /\ PassesGates(SourceEntry(t), last_pass.config)
        /\ t.body.translation[2] - SourceEntry(t).height \in -5..-1
        /\ t.body.translation[2] >= MinHeight - 5

\* a live tree sits below the threshold although its vertex lies above it
C5_Witness ==
    /\ Installed
    /\ \E t \in Trees(world) :
            /\ t.body.translation[2] < MinHeight
            /\ SourceEntry(t).height > MinHeight

C7_DensityGate ==
    LET config == last_pass.config
        log == last_pass.log
    IN  /\ (last_pass.outcome = "ok" /\ config.density = 0) =>
                Trees(Output) = {}
        /\ last_pass.scattered =>
            /\ Len(log) = Cardinality(UNION {DOMAIN m.body.mesh.positions :
                                                m \in Meshes(Output)})
            /\ \A i \in 1..Len(log) :
                    log[i].gate # "height" =>
                        /\ log[i].coin \in 0..(One - 1)
                        /\ (log[i].gate = "density")
                              <=> (log[i].coin < One - config.density)
            /\ (config.density = One /\ config.max_steepness >= One) =>
                    \A i \in 1..Len(log) :
                        log[i].height > MinHeight =>
                            Cardinality({t \in Trees(Output) :
                                            t.body.vertex = i}) = 1

\* a pass with density 1.0 and an all-accepting slope gate has put a tree on
\* a vertex for which the draw came out as 0 and on a vertex of steepness 1.0
C7_Witness ==
    /\ last_pass.scattered
    /\ last_pass.config.density = One
    /\ last_pass.config.max_steepness >= One
    /\ \E t \in Trees(Output) : SourceEntry(t).coin = 0
    /\ \E t \in Trees(Output) : SourceEntry(t).steepness = One

\* C8: a completed scatter run with a reference configuration yields the
\* instance list that the first scatter run with that configuration and
\* variant count yielded, whatever passes ran in between.
C8_Reproducible ==
    (last_pass.scattered /\ last_pass.config \in ReproConfigs) =>
        \A r \in Range(reference[last_pass.config]) :
            r.ntrees = last_pass.ntrees =>
                r.instances = Instances(last_pass.log)

\* the third pass repeats the configuration of the first, the second one
\* having scattered trees for another configuration
C8_Witness ==
    /\ last_pass.scattered
    /\ last_pass.gen = 3
    /\ last_pass.config \in ReproConfigs
    /\ \E r \in Range(reference[last_pass.config]) :
            r.gen = 1 /\ r.instances # <<>>
    /\ \E t \in Trees(world) : t.gen = 2 /\ t.config # last_pass.config

Invalid(config) ==
    \/ config.half_size = 0
    \/ config.density < 0
    \/ config.frequency < 0
    \/ config.octaves = 0

\* C9 as claimed: a pass run with an invalid configuration issues no
\* command: it despawns nothing and spawns neither mesh nor tree.
C9_InvalidConfigurationRejected ==
    (last_pass.outcome # "none" /\ Invalid(last_pass.config)) =>
        /\ Output = {}
        /\ last_pass.previous \subseteq {e.id : e \in world}

\* C10 as claimed: after a pass that panicked, nothing of that pass is live
\* and everything that was live when it started still is.
C10_PanicRetainsPrevious ==
    last_pass.outcome = "panic" =>
        /\ Output = {}
        /\ last_pass.previous \subseteq {e.id : e \in world}

\* density brought into [0,1]
Clamped(config) ==
    [config EXCEPT !.density = IF @ < 0 THEN 0 ELSE IF @ > One THEN One ELSE @]

\* C11: whatever the density of the configuration, below 0 and above 1
\* included, the scatter loop of a pass decides every vertex as the density
\* brought into [0,1] decides it, and its log (gate, draw and stream state
\* per vertex, instance per accepted vertex) is the log of the same loop
\* run over the same mesh with the density brought into [0,1].
C11_DensityActsClamped ==
    last_pass.scattered =>
        LET config == last_pass.config
            log == last_pass.log
        IN  /\ \A i \in 1..Len(log) :
                    log[i].gate # "height" =>
                        ((log[i].gate = "density")
                            <=> (log[i].coin < One - Clamped(config).density))
            /\ \A m \in Meshes(Output) :
                    log = Scatter(1, seed_from_u64(config.seed), m.body.mesh,
                                  Clamped(config), last_pass.ntrees)

\* a pass with a density above 1.0 has accepted a vertex whose draw came out
\* as 0, or a pass with a density below 0.0 has rejected a vertex whose draw
\* came out as the largest one
C11_Witness ==
    /\ last_pass.scattered
    /\ Meshes(Output) # {}
    /\ \/ /\ last_pass.config.density > One
          /\ \E t \in Trees(Output) : SourceEntry(t).coin = 0
       \/ /\ last_pass.config.density < 0
          /\ \E i \in 1..Len(last_pass.log) :
                /\ last_pass.log[i].gate = "density"
                /\ last_pass.log[i].coin = One - 1

\* the stream state the n-th of the draws taken from state s leaves behind
RECURSIVE Drawn(_, _)
Drawn(s, n) == IF n = 0 THEN s ELSE NextRng(Drawn(s, n - 1))

\* C12: the log of a scatter run has one entry per vertex in iteration
\* order, and the single stream, seeded at the start of the pass, moves
\* from entry to entry by the draws of the entry's outcome: none for a
\* vertex rejected by the height gate, one (the density draw) for a vertex
\* rejected by the density gate or by the slope gate, seven for an accepted
\* vertex, read in the order density, jitter x, jitter y, jitter z, variant
\* index, scale, yaw; the variant index is in [0, variant_count).
C12_DrawsPerOutcome ==
    last_pass.scattered =>
        LET config == last_pass.config
            log == last_pass.log
            Before(i) == IF i = 1 THEN seed_from_u64(config.seed)
                         ELSE log[i - 1].rng
        IN  /\ \A i \in 1..Len(log) :
                LET e == log[i]
                    s == Before(i)
                IN  /\ e.vertex = i
                    /\ e.gate = "height" =>
                            e.draws = 0 /\ e.rng = s /\ e.inst = <<>>
                    /\ e.gate \in {"density", "slope"} =>
                            /\ e.draws = 1
                            /\ e.rng = Drawn(s, 1)
                            /\ e.coin = gen_range(Drawn(s, 1), 0, One)
                            /\ e.inst = <<>>
                    /\ e.gate = "slope" => e.coin >= One - config.density
                    /\ e.gate = "accept" =>
                            /\ e.draws = 7
                            /\ e.rng = Drawn(s, 7)
                            /\ e.coin = gen_range(Drawn(s, 1), 0, One)
                            /\ Len(e.inst) = 1
                            /\ e.inst[1].translation[2] =
                                    e.height + gen_range(Drawn(s, 3), -5, 0)
                            /\ \A m \in Meshes(Output) :
                                LET pos == m.body.mesh.positions[i]
                                IN  /\ e.inst[1].translation[1] =
                                        pos[1] + gen_range(Drawn(s, 2), -25, 25)
                                    /\ e.inst[1].translation[3] =
                                        pos[3] + gen_range(Drawn(s, 4), -25, 25)
                            /\ e.inst[1].variant =
                                    gen_range(Drawn(s, 5), 0, last_pass.ntrees)
                            /\ e.inst[1].variant \in 0..(last_pass.ntrees - 1)
                            /\ e.inst[1].scale =
                                    gen_range(Drawn(s, 6), 20, 25)
                                        * (10000 - e.height)
                            /\ e.inst[1].yaw = gen_range(Drawn(s, 7), 0, 8)
            /\ \A t \in Trees(Output) :
                    /\ SourceEntry(t).inst = <<t.body>>
                    /\ t.body.variant \in 0..(Len(trees) - 1)

\* one scatter run has met all four outcomes, an accepted vertex coming
\* after a rejected one of each kind, and has drawn the last variant
C12_Witness ==
    /\ last_pass.scattered
    /\ Meshes(Output) # {}
    /\ \E i, j, k, l \in 1..Len(last_pass.log) :
            /\ i < l /\ j < l /\ k < l
            /\ last_pass.log[i].gate = "height"
            /\ last_pass.log[j].gate = "density"
            /\ last_pass.log[k].gate = "slope"
            /\ last_pass.log[l].gate = "accept"
    /\ \E t \in Trees(Output) : t.body.variant = last_pass.ntrees - 1

\* C13: TerrainResources.trees holds no handle or three in every state; it
\* is empty as long as the glTF asset is absent and until the variants are
\* built, the one step that changes it starts from the empty list with the
\* asset present, appends the three variants and sets the Local flag, and
\* once the flag is set the list stays as it is.
C13_VariantListEmptyOrThree ==
    /\ [](Len(trees) \in {0, 3})
    /\ [](~gltf_loaded => trees = <<>>)
    /\ [](loaded <=> trees # <<>>)
    /\ [][trees' # trees =>
            /\ gltf_loaded /\ ~loaded /\ loaded'
            /\ trees = <<>>
            /\ trees' = <<0, 1, 2>>]_vars
    /\ [][loaded => trees' = trees]_vars

\* the first pass found the list empty, the variants were built after it,
\* and a later pass has drawn from the three of them
C13_Witness ==
    /\ trees = <<0, 1, 2>>
    /\ last_pass.gen >= 2
    /\ last_pass.ntrees = 3
    /\ \E m \in Meshes(world) : m.gen = 1
    /\ Trees(world) = {}
    /\ {t.body.variant : t \in Trees(Output)} = {0, 1, 2}

====
